---- MODULE Spec2Model ----
(***************************************************************************)
(* Model of the hotel reservation engine of src/reservas: the Reserva      *)
(* table, the availability queries of Habitacion and Hotel, Reserva.save   *)
(* and the request handlers of views.py, admin.py and models.py that       *)
(* create, confirm, cancel and reassign reservations.                      *)
(*                                                                         *)
(* The database is the variable reservas (a sequence: the primary key of   *)
(* a row is its index, rows are never deleted), the guests huespedes and   *)
(* the catalogue hoteles and habitaciones.  Every handler is a function    *)
(* from the database and its request parameters to the new database and    *)
(* the response; Spec runs the handlers one request at a time,             *)
(* SpecConfirmar and SpecCrear run request handlers whose database queries *)
(* interleave, SpecHuespedes runs the handlers that create reservations on *)
(* every party size and guest form a request can carry, and SpecCatalogo   *)
(* runs the creation of hotels and the generation of their rooms.          *)
(***************************************************************************)
EXTENDS Integers, Sequences, FiniteSets, TLC

VARIABLES
    hoteles,        \* Hotel table: id (index) -> [cantidad_habitaciones, generar_habitaciones_auto]
    habitaciones,   \* Habitacion table: id -> [hotel, numero, cantidad_plazas]
    huespedes,      \* Huesped table: id (index) -> [nombre, email, telefono]
    reservas,       \* Reserva table: id (index) -> row
    resp,           \* outcome of the last request handled
    pc,             \* position of each concurrent request handler
    loc             \* in-memory model instance of each concurrent request handler

vars == <<hoteles, habitaciones, huespedes, reservas, resp, pc, loc>>

----------------------------------------------------------------------------
(* Bounds of the model. *)
MaxReservas == 2
MaxFecha == 2
MaxPersonas == 2
NumProcs == 2

NULL == 0

Fechas == 1..MaxFecha
Personas == 1..MaxPersonas
Procs == 1..NumProcs

ESTADO_CHOICES == {"pendiente", "confirmada", "cancelada", "rechazada", "completada"}

Activos == {"confirmada", "pendiente"}

RECURSIVE str(_)
str(n) == IF n < 10 THEN <<n>> ELSE str(n \div 10) \o <<n % 10>>

(* A catalogue that Hotel.generar_habitaciones can produce: hotel 1 with   *)
(* two rooms (2 and 1 seats), hotel 2 with one room (2 seats).             *)
HotelesIniciales ==
    <<[cantidad_habitaciones |-> 2, generar_habitaciones_auto |-> TRUE],
      [cantidad_habitaciones |-> 1, generar_habitaciones_auto |-> TRUE]>>

Hoteles == DOMAIN hoteles

CatalogoInicial ==
    <<[hotel |-> 1, numero |-> str(1), cantidad_plazas |-> 2],
      [hotel |-> 1, numero |-> str(2), cantidad_plazas |-> 1],
      [hotel |-> 2, numero |-> str(1), cantidad_plazas |-> 2]>>

(* A guest registered before the first reservation (HuespedAdmin), and    *)
(* the guest form that carries the same data.                              *)
Huesped(nombre, email, telefono) ==
    [nombre |-> nombre, email |-> email, telefono |-> telefono]

HuespedesIniciales == <<Huesped("Ana", "ana@example.com", "600")>>

Formularios == {Huesped("Ana", "ana@example.com", "600")}

----------------------------------------------------------------------------
(* Queries. *)

esta_disponible_cuenta_canceladas(db, hab, fecha) ==
    ~ \E i \in DOMAIN db :
        /\ db[i].habitacion = hab
        /\ db[i].fecha_reserva = fecha
        /\ db[i].estado \in Activos \cup {"cancelada"}

esta_disponible(db, hab, fecha) ==
    ~ \E i \in DOMAIN db :
        /\ db[i].habitacion = hab
        /\ db[i].fecha_reserva = fecha
        /\ db[i].estado \in Activos

habitaciones_disponibles_sin_fecha(db, habs, hotel, fecha) ==
    LET habitaciones_reservadas ==
            { db[i].habitacion : i \in { j \in DOMAIN db :
                /\ db[j].estado \in Activos
                /\ db[j].habitacion # NULL
                /\ db[j].habitacion \in DOMAIN habs
                /\ habs[db[j].habitacion].hotel = hotel } }
    IN  { h \in DOMAIN habs : habs[h].hotel = hotel /\ h \notin habitaciones_reservadas }

habitaciones_disponibles_solo_confirmadas(db, habs, hotel, fecha) ==
    LET habitaciones_reservadas ==
            { db[i].habitacion : i \in { j \in DOMAIN db :
                /\ db[j].fecha_reserva = fecha
                /\ db[j].estado = "confirmada"
                /\ db[j].habitacion # NULL
                /\ db[j].habitacion \in DOMAIN habs
                /\ habs[db[j].habitacion].hotel = hotel } }
    IN  { h \in DOMAIN habs : habs[h].hotel = hotel /\ h \notin habitaciones_reservadas }

(* Hotel.habitaciones_disponibles(fecha). *)
habitaciones_disponibles(db, habs, hotel, fecha) ==
    LET habitaciones_reservadas ==
            { db[i].habitacion : i \in { j \in DOMAIN db :
                /\ db[j].fecha_reserva = fecha
                /\ db[j].estado \in Activos
                /\ db[j].habitacion # NULL
                /\ db[j].habitacion \in DOMAIN habs
                /\ habs[db[j].habitacion].hotel = hotel } }
    IN  { h \in DOMAIN habs : habs[h].hotel = hotel /\ h \notin habitaciones_reservadas }

save_conflicto_solo_pendientes(db, id, obj) ==
    /\ obj.estado = "confirmada"
    /\ id # NULL
    /\ obj.habitacion # NULL
    /\ \E j \in DOMAIN db :
        /\ j # id
        /\ db[j].habitacion = obj.habitacion
        /\ db[j].fecha_reserva = obj.fecha_reserva
        /\ db[j].estado = "pendiente"

(* Reserva.save: the check made before the row is written. *)
save_conflicto(db, id, obj) ==
    /\ obj.estado = "confirmada"
    /\ id # NULL
    /\ obj.habitacion # NULL
    /\ \E j \in DOMAIN db :
        /\ j # id
        /\ db[j].habitacion = obj.habitacion
        /\ db[j].fecha_reserva = obj.fecha_reserva
        /\ db[j].estado \in Activos

(* super().save(): INSERT when the object has no primary key, else UPDATE  *)
(* of every column from the in-memory object.                              *)
guardar(db, id, obj) ==
    IF id = NULL THEN Append(db, obj) ELSE [db EXCEPT ![id] = obj]

Respuesta(op, ids, res, guardadas) ==
    [op |-> op, ids |-> ids, res |-> res, guardadas |-> guardadas]

Resultado(db, r) == [db |-> db, resp |-> r]

NuevaReserva(huesped, fecha, personas, hab, estado) ==
    [huesped |-> huesped, fecha_reserva |-> fecha, cantidad_personas |-> personas,
     habitacion |-> hab, estado |-> estado]

(* The in-memory state of a request handler: the operation, the primary    *)
(* key of the row it works on (NULL for a row not yet inserted) and the    *)
(* model instance.                                                         *)
Local(op, id, obj) == [op |-> op, id |-> id, obj |-> obj]

LocVacio == Local("", NULL, NuevaReserva(NULL, NULL, NULL, NULL, ""))

----------------------------------------------------------------------------
(* Handlers. *)

get_or_create_siempre_crea(hs, form) ==
    [hs |-> Append(hs, form), id |-> Len(hs) + 1, created |-> TRUE]

(* Huesped.objects.get_or_create(email=..., defaults={nombre, telefono}):  *)
(* the row with that email, or a new row; more than one row with that      *)
(* email raises MultipleObjectsReturned (id NULL here).                    *)
get_or_create(hs, form) ==
    LET iguales == { i \in DOMAIN hs : hs[i].email = form.email }
    IN  IF iguales = {}
        THEN [hs |-> Append(hs, form), id |-> Len(hs) + 1, created |-> TRUE]
        ELSE IF Cardinality(iguales) = 1
        THEN [hs |-> hs, id |-> CHOOSE i \in iguales : TRUE, created |-> FALSE]
        ELSE [hs |-> hs, id |-> NULL, created |-> FALSE]

(* views.completar_reserva, POST: the date, party size and room come from  *)
(* the session.  The session keeps the room id posted to                   *)
(* seleccionar_habitacion (any existing room; the list of free rooms is    *)
(* only displayed) and the date and party size posted to reservar_hotel,   *)
(* which may be posted again after the room was chosen: every combination  *)
(* of the three is a session the handler can find.                         *)
(* all([...]) is false on a party size of 0, and the request is answered   *)
(* with a redirect before the guest is looked up.                          *)
completar_reserva(db, hs, form, fecha, personas, hab) ==
    LET op == "completar_reserva"
        g == get_or_create(hs, form)
        hs2 == IF ~ g.created /\ (g.hs[g.id].nombre # form.nombre
                                  \/ g.hs[g.id].telefono # form.telefono)
               THEN [g.hs EXCEPT ![g.id].nombre = form.nombre,
                                 ![g.id].telefono = form.telefono]
               ELSE g.hs
        obj == NuevaReserva(g.id, fecha, personas, hab, "pendiente")
        nueva == guardar(db, NULL, obj)
    IN  IF personas = 0
        THEN [db |-> db, huespedes |-> hs,
              resp |-> Respuesta(op, {}, "Informacion de reserva incompleta", {})]
        ELSE IF g.id = NULL
        THEN [db |-> db, huespedes |-> hs,
              resp |-> Respuesta(op, {}, "MultipleObjectsReturned", {})]
        ELSE [db |-> nueva, huespedes |-> hs2,
              resp |-> Respuesta(op, {Len(nueva)}, "creada", {Len(nueva)})]

(* Lexicographic order of two room numbers (CharField): order_by('numero'). *)
numero_menor(a, b) ==
    \E k \in 1..(Len(a) + 1) :
        /\ \A m \in 1..(k - 1) : m <= Len(b) /\ a[m] = b[m]
        /\ \/ k = Len(a) + 1 /\ Len(b) >= k
           \/ k <= Len(a) /\ k <= Len(b) /\ a[k] < b[k]

(* QuerySet.first() on rooms of one hotel: Habitacion.Meta.ordering.       *)
primera_habitacion(habs, S) ==
    CHOOSE h \in S : \A g \in S \ {h} : numero_menor(habs[h].numero, habs[g].numero)

(* Iteration order of a Reserva queryset: Reserva.Meta.ordering, newest    *)
(* reservation date first, then newest row first.                          *)
RECURSIVE orden_reservas(_, _)
orden_reservas(db, ids) ==
    IF ids = {} THEN <<>>
    ELSE LET i == CHOOSE x \in ids : \A y \in ids \ {x} :
                    \/ db[x].fecha_reserva > db[y].fecha_reserva
                    \/ db[x].fecha_reserva = db[y].fecha_reserva /\ x > y
         IN  <<i>> \o orden_reservas(db, ids \ {i})

(* models.crear_reserva_desde_admin; habitacion_id = NULL is the call      *)
(* without a room id.  An unknown guest raises Huesped.DoesNotExist, which *)
(* the function returns as an error message.                               *)
crear_reserva_desde_admin(db, habs, hs, huesped_id, fecha, personas, hotel, habitacion_id) ==
    LET op == "crear_reserva_desde_admin"
        candidatas == { h \in habitaciones_disponibles(db, habs, hotel, fecha) :
                          habs[h].cantidad_plazas >= personas }
    IN  IF huesped_id \notin DOMAIN hs
        THEN Resultado(db, Respuesta(op, {}, "Error", {}))
        ELSE IF habitacion_id = NULL /\ candidatas = {}
        THEN Resultado(db, Respuesta(op, {}, "No hay habitaciones disponibles", {}))
        ELSE LET habitacion == IF habitacion_id # NULL THEN habitacion_id
                               ELSE primera_habitacion(habs, candidatas)
             IN  IF ~ esta_disponible(db, habitacion, fecha)
                 THEN Resultado(db, Respuesta(op, {},
                        "La habitacion seleccionada no esta disponible", {}))
                 ELSE LET obj == NuevaReserva(huesped_id, fecha, personas, habitacion, "confirmada")
                          nueva == guardar(db, NULL, obj)
                      IN  Resultado(nueva, Respuesta(op, {Len(nueva)},
                            "Reserva creada exitosamente", {Len(nueva)}))

(* Hotel.habitaciones_disponibles(fecha).filter(cantidad_plazas__gte=n).   *)
alternativas(db, habs, hotel, fecha, personas) ==
    { h \in habitaciones_disponibles(db, habs, hotel, fecha) :
        habs[h].cantidad_plazas >= personas }

(* ReservaAdmin.confirmar_reserva.                                         *)
confirmar_reserva(db, habs, id) ==
    LET op == "confirmar_reserva"
        reserva == db[id]
    IN  IF reserva.habitacion = NULL
        THEN Resultado(db, Respuesta(op, {id}, "AttributeError", {}))
        ELSE IF ~ esta_disponible(db, reserva.habitacion, reserva.fecha_reserva)
        THEN IF alternativas(db, habs, habs[reserva.habitacion].hotel,
                             reserva.fecha_reserva, reserva.cantidad_personas) # {}
             THEN Resultado(db, Respuesta(op, {id}, "no disponible, hay alternativas", {}))
             ELSE Resultado(db, Respuesta(op, {id}, "no hay habitaciones disponibles", {}))
        ELSE LET obj == [reserva EXCEPT !.estado = "confirmada"]
             IN  IF save_conflicto(db, id, obj)
                 THEN Resultado(db, Respuesta(op, {id}, "ValueError", {}))
                 ELSE Resultado(guardar(db, id, obj),
                                Respuesta(op, {id}, "confirmada", {id}))

(* admin.confirmar_reservas over the rows of the queryset, loaded when the *)
(* iteration starts; an exception of save() ends the request, the rows     *)
(* saved before it stay saved.                                             *)
RECURSIVE confirmar_reservas_desde(_, _, _, _)
confirmar_reservas_desde(db, cargadas, cola, hechas) ==
    IF cola = <<>> THEN [db |-> db, res |-> "ok", guardadas |-> hechas]
    ELSE LET id == Head(cola)
             obj == [cargadas[id] EXCEPT !.estado = "confirmada"]
         IN  IF cargadas[id].estado # "confirmada"
             THEN IF save_conflicto(db, id, obj)
                  THEN [db |-> db, res |-> "ValueError", guardadas |-> hechas]
                  ELSE confirmar_reservas_desde(guardar(db, id, obj), cargadas,
                                                Tail(cola), hechas \cup {id})
             ELSE confirmar_reservas_desde(db, cargadas, Tail(cola), hechas)

confirmar_reservas(db, ids) ==
    LET r == confirmar_reservas_desde(db, db, orden_reservas(db, ids), {})
    IN  Resultado(r.db, Respuesta("confirmar_reservas", ids, r.res, r.guardadas))

(* ReservaAdmin.cancelar_reserva.                                          *)
cancelar_reserva(db, id) ==
    LET obj == [db[id] EXCEPT !.estado = "cancelada"]
    IN  Resultado(guardar(db, id, obj), Respuesta("cancelar_reserva", {id}, "cancelada", {id}))

(* admin.cancelar_reservas.                                                *)
RECURSIVE cancelar_reservas_desde(_, _, _, _)
cancelar_reservas_desde(db, cargadas, cola, hechas) ==
    IF cola = <<>> THEN [db |-> db, res |-> "ok", guardadas |-> hechas]
    ELSE LET id == Head(cola)
             obj == [cargadas[id] EXCEPT !.estado = "cancelada"]
         IN  IF cargadas[id].estado # "cancelada"
             THEN cancelar_reservas_desde(guardar(db, id, obj), cargadas,
                                          Tail(cola), hechas \cup {id})
             ELSE cancelar_reservas_desde(db, cargadas, Tail(cola), hechas)

cancelar_reservas(db, ids) ==
    LET r == cancelar_reservas_desde(db, db, orden_reservas(db, ids), {})
    IN  Resultado(r.db, Respuesta("cancelar_reservas", ids, r.res, r.guardadas))

(* ReservaAdmin.cambiar_habitacion, POST with habitacion_id.               *)
cambiar_habitacion(db, habs, id, nueva_habitacion) ==
    LET op == "cambiar_habitacion"
        reserva == db[id]
        obj == [reserva EXCEPT !.habitacion = nueva_habitacion]
    IN  IF reserva.habitacion = NULL
        THEN Resultado(db, Respuesta(op, {id}, "La reserva no tiene un hotel asignado", {}))
        ELSE IF save_conflicto(db, id, obj)
        THEN Resultado(db, Respuesta(op, {id}, "ValueError", {}))
        ELSE Resultado(guardar(db, id, obj), Respuesta(op, {id}, "Habitacion cambiada", {id}))

cambiar_habitacion_reserva_vuelve_a_pendiente(db, habs, id, nueva_habitacion) ==
    LET op == "cambiar_habitacion_reserva"
        reserva == db[id]
        obj == [reserva EXCEPT !.habitacion = nueva_habitacion, !.estado = "pendiente"]
    IN  IF ~ esta_disponible(db, nueva_habitacion, reserva.fecha_reserva)
        THEN Resultado(db, Respuesta(op, {id}, "La nueva habitacion no esta disponible", {}))
        ELSE IF habs[nueva_habitacion].cantidad_plazas < reserva.cantidad_personas
        THEN Resultado(db, Respuesta(op, {id},
                "La habitacion no tiene capacidad suficiente", {}))
        ELSE Resultado(guardar(db, id, obj),
                Respuesta(op, {id}, "Habitacion cambiada exitosamente", {id}))

(* models.cambiar_habitacion_reserva.                                      *)
cambiar_habitacion_reserva(db, habs, id, nueva_habitacion) ==
    LET op == "cambiar_habitacion_reserva"
        reserva == db[id]
        obj == [reserva EXCEPT !.habitacion = nueva_habitacion]
    IN  IF ~ esta_disponible(db, nueva_habitacion, reserva.fecha_reserva)
        THEN Resultado(db, Respuesta(op, {id}, "La nueva habitacion no esta disponible", {}))
        ELSE IF habs[nueva_habitacion].cantidad_plazas < reserva.cantidad_personas
        THEN Resultado(db, Respuesta(op, {id},
                "La habitacion no tiene capacidad suficiente", {}))
        ELSE IF save_conflicto(db, id, obj)
        THEN Resultado(db, Respuesta(op, {id}, "Error", {}))
        ELSE Resultado(guardar(db, id, obj),
                Respuesta(op, {id}, "Habitacion cambiada exitosamente", {id}))

(* The change form of ReservaAdmin: estado is an editable field of its     *)
(* fieldsets; the form saves the row through Reserva.save.                 *)
reserva_change_form(db, id, estado) ==
    LET op == "reserva_change_form"
        obj == [db[id] EXCEPT !.estado = estado]
    IN  IF save_conflicto(db, id, obj)
        THEN Resultado(db, Respuesta(op, {id}, "ValueError", {}))
        ELSE Resultado(guardar(db, id, obj), Respuesta(op, {id}, "guardada", {id}))

(* ReservaAdmin add form: huesped, fecha_reserva, cantidad_personas and    *)
(* estado are required fields of the form, estado one of ESTADO_CHOICES    *)
(* with 'pendiente' preselected, habitacion may stay empty.  The object    *)
(* has no pk yet, so Reserva.save skips its conflict check and inserts.    *)
reserva_add_form(db, huesped_id, fecha, personas, hab, estado) ==
    LET op == "reserva_add_form"
        id == Len(db) + 1
    IN  Resultado(Append(db, NuevaReserva(huesped_id, fecha, personas, hab, estado)),
                  Respuesta(op, {id}, "guardada", {id}))

(* QuerySet.order_by('cantidad_plazas', 'numero') on rooms of one hotel.   *)
RECURSIVE order_by_plazas_numero(_, _)
order_by_plazas_numero(habs, S) ==
    IF S = {} THEN <<>>
    ELSE LET h == CHOOSE x \in S : \A y \in S \ {x} :
                    \/ habs[x].cantidad_plazas < habs[y].cantidad_plazas
                    \/ /\ habs[x].cantidad_plazas = habs[y].cantidad_plazas
                       /\ numero_menor(habs[x].numero, habs[y].numero)
         IN  <<h>> \o order_by_plazas_numero(habs, S \ {h})

(* views.seleccionar_habitacion, the list it displays:                     *)
(* habitaciones_capacidad.exclude(id__in=habitaciones_reservadas), which   *)
(* the database evaluates as NOT (id IN (SELECT habitacion_id ...)).  The  *)
(* subquery has no hotel filter and returns NULL for a reservation without *)
(* room; id IN (..., NULL) is then true or unknown, never false, and no    *)
(* row passes the NOT.                                                     *)
seleccionar_habitacion(db, habs, hotel, fecha, personas) ==
    LET habitaciones_capacidad ==
            { h \in DOMAIN habs : /\ habs[h].hotel = hotel
                                  /\ habs[h].cantidad_plazas >= personas }
        habitaciones_reservadas ==
            { db[i].habitacion : i \in { j \in DOMAIN db :
                /\ db[j].fecha_reserva = fecha
                /\ db[j].estado \in Activos } }
    IN  order_by_plazas_numero(habs,
            IF NULL \in habitaciones_reservadas THEN {}
            ELSE habitaciones_capacidad \ habitaciones_reservadas)

obtener_alternativas_con_la_propia(db, habs, reserva) ==
    IF reserva.habitacion = NULL THEN {}
    ELSE { h \in habitaciones_disponibles(db, habs, habs[reserva.habitacion].hotel,
                                          reserva.fecha_reserva) :
            habs[h].cantidad_plazas >= reserva.cantidad_personas }

(* Reserva.obtener_alternativas.                                           *)
obtener_alternativas(db, habs, reserva) ==
    IF reserva.habitacion = NULL THEN {}
    ELSE { h \in habitaciones_disponibles(db, habs, habs[reserva.habitacion].hotel,
                                          reserva.fecha_reserva) :
            habs[h].cantidad_plazas >= reserva.cantidad_personas }
         \ {reserva.habitacion}

(* Reserva.puede_confirmar.                                                *)
puede_confirmar(db, reserva) ==
    IF reserva.habitacion = NULL THEN FALSE
    ELSE /\ esta_disponible(db, reserva.habitacion, reserva.fecha_reserva)
         /\ reserva.estado = "pendiente"

Fallida(id, error) == [id |-> id, error |-> error]

RespuestaMasiva(reserva_ids, exitosas, fallidas, guardadas) ==
    [op |-> "confirmar_reserva_masiva",
     ids |-> { reserva_ids[k] : k \in DOMAIN reserva_ids },
     res |-> "ok", guardadas |-> guardadas,
     reserva_ids |-> reserva_ids, exitosas |-> exitosas, fallidas |-> fallidas]

RECURSIVE confirmar_reserva_masiva_hasta_fallo_desde(_, _, _, _, _)
confirmar_reserva_masiva_hasta_fallo_desde(db, cola, exitosas, fallidas, guardadas) ==
    IF cola = <<>>
    THEN [db |-> db, exitosas |-> exitosas, fallidas |-> fallidas, guardadas |-> guardadas]
    ELSE LET id == Head(cola)
         IN  IF id \notin DOMAIN db
             THEN [db |-> db, exitosas |-> exitosas,
                   fallidas |-> Append(fallidas, Fallida(id, "DoesNotExist")),
                   guardadas |-> guardadas]
             ELSE IF puede_confirmar(db, db[id])
             THEN confirmar_reserva_masiva_hasta_fallo_desde(
                      guardar(db, id, [db[id] EXCEPT !.estado = "confirmada"]),
                      Tail(cola), exitosas + 1, fallidas, guardadas \cup {id})
             ELSE [db |-> db, exitosas |-> exitosas,
                   fallidas |-> Append(fallidas, Fallida(id, "no se puede confirmar")),
                   guardadas |-> guardadas]

confirmar_reserva_masiva_hasta_fallo(db, reserva_ids) ==
    LET r == confirmar_reserva_masiva_hasta_fallo_desde(db, reserva_ids, 0, <<>>, {})
    IN  Resultado(r.db, RespuestaMasiva(reserva_ids, r.exitosas, r.fallidas, r.guardadas))

(* The loop of models.confirmar_reserva_masiva over the ids not yet        *)
(* handled: each id is looked up, tested and saved inside its own try; an  *)
(* exception (unknown id, ValueError of save) adds an entry to fallidas    *)
(* and the loop goes on with the next id.                                  *)
RECURSIVE confirmar_reserva_masiva_desde(_, _, _, _, _)
confirmar_reserva_masiva_desde(db, cola, exitosas, fallidas, guardadas) ==
    IF cola = <<>>
    THEN [db |-> db, exitosas |-> exitosas, fallidas |-> fallidas, guardadas |-> guardadas]
    ELSE LET id == Head(cola)
         IN  IF id \notin DOMAIN db
             THEN confirmar_reserva_masiva_desde(db, Tail(cola), exitosas,
                      Append(fallidas, Fallida(id, "DoesNotExist")), guardadas)
             ELSE IF puede_confirmar(db, db[id])
             THEN LET obj == [db[id] EXCEPT !.estado = "confirmada"]
                  IN  IF save_conflicto(db, id, obj)
                      THEN confirmar_reserva_masiva_desde(db, Tail(cola), exitosas,
                               Append(fallidas, Fallida(id, "ValueError")), guardadas)
                      ELSE confirmar_reserva_masiva_desde(guardar(db, id, obj),
                               Tail(cola), exitosas + 1, fallidas, guardadas \cup {id})
             ELSE confirmar_reserva_masiva_desde(db, Tail(cola), exitosas,
                      Append(fallidas, Fallida(id, "no se puede confirmar")), guardadas)

(* models.confirmar_reserva_masiva(reserva_ids): returns exitosas, fallidas. *)
confirmar_reserva_masiva(db, reserva_ids) ==
    LET r == confirmar_reserva_masiva_desde(db, reserva_ids, 0, <<>>, {})
    IN  Resultado(r.db, RespuestaMasiva(reserva_ids, r.exitosas, r.fallidas, r.guardadas))

(* Deletion of a room (HabitacionAdmin): Reserva.habitacion is declared    *)
(* on_delete=SET_NULL, the reservations of the room lose their room.       *)
borrar_habitacion(db, hab) ==
    [i \in DOMAIN db |->
        IF db[i].habitacion = hab THEN [db[i] EXCEPT !.habitacion = NULL] ELSE db[i]]

----------------------------------------------------------------------------
(* The sequential specification: one request at a time.                    *)

Init ==
    /\ hoteles = HotelesIniciales
    /\ habitaciones = CatalogoInicial
    /\ huespedes = HuespedesIniciales
    /\ reservas = <<>>
    /\ resp = Respuesta("ninguna", {}, "", {})
    /\ pc = [p \in Procs |-> "idle"]
    /\ loc = [p \in Procs |-> LocVacio]

Aplicar(r) ==
    /\ reservas' = r.db
    /\ resp' = r.resp
    /\ UNCHANGED <<hoteles, habitaciones, huespedes, pc, loc>>

Ids == DOMAIN reservas

CompletarReserva(form, fecha, personas, hab) ==
    LET r == completar_reserva(reservas, huespedes, form, fecha, personas, hab)
    IN  /\ Len(reservas) < MaxReservas
        /\ reservas' = r.db
        /\ huespedes' = r.huespedes
        /\ resp' = r.resp
        /\ UNCHANGED <<hoteles, habitaciones, pc, loc>>

CrearReservaDesdeAdmin(huesped_id, fecha, personas, hotel, hab) ==
    /\ Len(reservas) < MaxReservas
    /\ Aplicar(crear_reserva_desde_admin(reservas, habitaciones, huespedes,
                                         huesped_id, fecha, personas, hotel, hab))

ConfirmarReserva(id) ==
    Aplicar(confirmar_reserva(reservas, habitaciones, id))

ConfirmarReservas(ids) ==
    Aplicar(confirmar_reservas(reservas, ids))

CancelarReserva(id) ==
    Aplicar(cancelar_reserva(reservas, id))

CancelarReservas(ids) ==
    Aplicar(cancelar_reservas(reservas, ids))

CambiarHabitacion(id, hab) ==
    Aplicar(cambiar_habitacion(reservas, habitaciones, id, hab))

CambiarHabitacionReserva(id, hab) ==
    Aplicar(cambiar_habitacion_reserva(reservas, habitaciones, id, hab))

ReservaChangeForm(id, estado) ==
    Aplicar(reserva_change_form(reservas, id, estado))

ReservaAddForm(huesped_id, fecha, personas, hab, estado) ==
    /\ Len(reservas) < MaxReservas
    /\ Aplicar(reserva_add_form(reservas, huesped_id, fecha, personas, hab, estado))

Next ==
    \/ \E form \in Formularios, fecha \in Fechas, personas \in Personas,
          hab \in DOMAIN habitaciones :
            CompletarReserva(form, fecha, personas, hab)
    \/ \E huesped_id \in DOMAIN huespedes, fecha \in Fechas, personas \in Personas,
          hotel \in Hoteles, hab \in DOMAIN habitaciones \cup {NULL} :
            CrearReservaDesdeAdmin(huesped_id, fecha, personas, hotel, hab)
    \/ \E id \in Ids : ConfirmarReserva(id)
    \/ \E ids \in SUBSET Ids \ {{}} : ConfirmarReservas(ids)
    \/ \E id \in Ids : CancelarReserva(id)
    \/ \E ids \in SUBSET Ids \ {{}} : CancelarReservas(ids)
    \/ \E id \in Ids, hab \in DOMAIN habitaciones : CambiarHabitacion(id, hab)
    \/ \E id \in Ids, hab \in DOMAIN habitaciones : CambiarHabitacionReserva(id, hab)
    \/ \E id \in Ids, estado \in ESTADO_CHOICES : ReservaChangeForm(id, estado)

Spec == Init /\ [][Next]_vars

----------------------------------------------------------------------------
(* The requests that create reservations, on every party size that         *)
(* int(request.POST['cantidad_personas']) or a caller of                   *)
(* crear_reserva_desde_admin can supply, on the guest forms of two people  *)
(* and two addresses, and on guest ids that may not exist; no guest is     *)
(* registered at the start.                                                *)

PersonasEntrada == {-1, 0} \cup Personas

FormulariosEntrada ==
    { Huesped(nombre, email, telefono) :
        nombre \in {"Ana", "Eva"}, email \in {"ana@example.com", "eva@example.com"},
        telefono \in {"600", "700"} }

InitHuespedes ==
    /\ hoteles = HotelesIniciales
    /\ habitaciones = CatalogoInicial
    /\ huespedes = <<>>
    /\ reservas = <<>>
    /\ resp = Respuesta("ninguna", {}, "", {})
    /\ pc = [p \in Procs |-> "idle"]
    /\ loc = [p \in Procs |-> LocVacio]

NextHuespedes ==
    \/ \E form \in FormulariosEntrada, fecha \in Fechas, personas \in PersonasEntrada,
          hab \in DOMAIN habitaciones :
            CompletarReserva(form, fecha, personas, hab)
    \/ \E huesped_id \in 1..(Len(huespedes) + 1), fecha \in Fechas,
          personas \in PersonasEntrada, hotel \in Hoteles,
          hab \in DOMAIN habitaciones \cup {NULL} :
            CrearReservaDesdeAdmin(huesped_id, fecha, personas, hotel, hab)

SpecHuespedes == InitHuespedes /\ [][NextHuespedes]_vars

----------------------------------------------------------------------------
(* Bulk confirmation by models.confirmar_reserva_masiva, on lists of ids   *)
(* that may name a reservation twice or a reservation that does not        *)
(* exist, over reservations that were created, cancelled, or left without  *)
(* a room by the deletion of the room.                                     *)

MaxIds == 2

ListasDeIds ==
    UNION { [1..n -> 1..(Len(reservas) + 1)] : n \in 1..MaxIds }

ConfirmarReservaMasiva(reserva_ids) ==
    Aplicar(confirmar_reserva_masiva(reservas, reserva_ids))

BorrarHabitacion(hab) ==
    /\ habitaciones' = [h \in DOMAIN habitaciones \ {hab} |-> habitaciones[h]]
    /\ reservas' = borrar_habitacion(reservas, hab)
    /\ resp' = Respuesta("borrar_habitacion", {}, "borrada", {})
    /\ UNCHANGED <<hoteles, huespedes, pc, loc>>

NextMasiva ==
    \/ \E form \in Formularios, fecha \in Fechas, personas \in Personas,
          hab \in DOMAIN habitaciones :
            CompletarReserva(form, fecha, personas, hab)
    \/ \E huesped_id \in DOMAIN huespedes, fecha \in Fechas, personas \in Personas,
          hotel \in Hoteles, hab \in DOMAIN habitaciones \cup {NULL} :
            CrearReservaDesdeAdmin(huesped_id, fecha, personas, hotel, hab)
    \/ \E id \in Ids : CancelarReserva(id)
    \/ \E hab \in DOMAIN habitaciones : BorrarHabitacion(hab)
    \/ \E reserva_ids \in ListasDeIds : ConfirmarReservaMasiva(reserva_ids)

SpecMasiva == Init /\ [][NextMasiva]_vars

----------------------------------------------------------------------------
(* The ways a reservation comes into being: the guest flow, the helper     *)
(* crear_reserva_desde_admin and the add form of ReservaAdmin.             *)

NextAltas ==
    \/ \E form \in Formularios, fecha \in Fechas, personas \in Personas,
          hab \in DOMAIN habitaciones :
            CompletarReserva(form, fecha, personas, hab)
    \/ \E huesped_id \in DOMAIN huespedes, fecha \in Fechas, personas \in Personas,
          hotel \in Hoteles, hab \in DOMAIN habitaciones \cup {NULL} :
            CrearReservaDesdeAdmin(huesped_id, fecha, personas, hotel, hab)
    \/ \E huesped_id \in DOMAIN huespedes, fecha \in Fechas, personas \in Personas,
          hab \in DOMAIN habitaciones \cup {NULL}, estado \in ESTADO_CHOICES :
            ReservaAddForm(huesped_id, fecha, personas, hab, estado)

SpecAltas == Init /\ [][NextAltas]_vars

----------------------------------------------------------------------------
(* Reservations whose room is deleted: creation, cancellation, deletion of *)
(* rooms, the three confirm operations and the list of free rooms of the   *)
(* guest flow.                                                             *)

(* views.seleccionar_habitacion, GET, for the hotel, date and party size   *)
(* of the session.                                                         *)
SeleccionarHabitacion(hotel, fecha, personas) ==
    /\ resp' = [op |-> "seleccionar_habitacion", ids |-> {}, res |-> "ok",
                guardadas |-> {},
                habitaciones_disponibles |->
                    seleccionar_habitacion(reservas, habitaciones, hotel, fecha, personas)]
    /\ UNCHANGED <<hoteles, habitaciones, huespedes, reservas, pc, loc>>

NextBorrado ==
    \/ \E form \in Formularios, fecha \in Fechas, personas \in Personas,
          hab \in DOMAIN habitaciones :
            CompletarReserva(form, fecha, personas, hab)
    \/ \E huesped_id \in DOMAIN huespedes, fecha \in Fechas, personas \in Personas,
          hotel \in Hoteles, hab \in DOMAIN habitaciones \cup {NULL} :
            CrearReservaDesdeAdmin(huesped_id, fecha, personas, hotel, hab)
    \/ \E id \in Ids : CancelarReserva(id)
    \/ \E hab \in DOMAIN habitaciones : BorrarHabitacion(hab)
    \/ \E id \in Ids : ConfirmarReserva(id)
    \/ \E ids \in SUBSET Ids \ {{}} : ConfirmarReservas(ids)
    \/ \E id \in Ids : ConfirmarReservaMasiva(<<id>>)
    \/ \E hotel \in Hoteles, fecha \in Fechas, personas \in Personas :
            SeleccionarHabitacion(hotel, fecha, personas)

SpecBorrado == Init /\ [][NextBorrado]_vars

----------------------------------------------------------------------------
(* The catalogue: creation and saving of hotels, and the generation of     *)
(* their rooms by Hotel.generar_habitaciones, called by the post_save      *)
(* signal of Hotel and by the admin action.  No hotel exists at the start. *)

MaxHoteles == 2
MaxHabitaciones == 2

tipos_plazas == <<1, 2, 2, 3, 4>>

(* The values random.choice(tipos_plazas) can return. *)
Plazas == { tipos_plazas[k] : k \in DOMAIN tipos_plazas }

Cantidades == 0..MaxHabitaciones

NuevoHotel(cantidad, auto) ==
    [cantidad_habitaciones |-> cantidad, generar_habitaciones_auto |-> auto]

NuevaHabitacion(hotel, numero, plazas) ==
    [hotel |-> hotel, numero |-> numero, cantidad_plazas |-> plazas]

(* hotel.habitacion_set. *)
habitacion_set(habs, hotel) == { h \in DOMAIN habs : habs[h].hotel = hotel }

RespuestaGenerar(op, hotel, res, count) ==
    [op |-> op, ids |-> {hotel}, res |-> res, guardadas |-> {}, count |-> count]

RECURSIVE generar_desde_una_de_menos(_, _, _, _, _)
generar_desde_una_de_menos(habs, hotel, i, cantidad, plazas) ==
    IF i >= cantidad THEN habs
    ELSE generar_desde_una_de_menos(
            Append(habs, NuevaHabitacion(hotel, str(i), plazas[i])),
            hotel, i + 1, cantidad, plazas)

generar_habitaciones_una_de_menos(habs, hotel, cantidad, plazas) ==
    IF habitacion_set(habs, hotel) # {}
    THEN [habs |-> habs, res |-> "existentes",
          count |-> Cardinality(habitacion_set(habs, hotel))]
    ELSE [habs |-> generar_desde_una_de_menos(habs, hotel, 1, cantidad, plazas),
          res |-> "generadas", count |-> cantidad]

(* The loop of Hotel.generar_habitaciones from room i on; plazas[i] is the *)
(* value random.choice returns in iteration i.                             *)
RECURSIVE generar_desde(_, _, _, _, _)
generar_desde(habs, hotel, i, cantidad, plazas) ==
    IF i > cantidad THEN habs
    ELSE generar_desde(Append(habs, NuevaHabitacion(hotel, str(i), plazas[i])),
                       hotel, i + 1, cantidad, plazas)

(* Hotel.generar_habitaciones, run without another request in between: on  *)
(* a hotel without rooms no insert can meet an existing (hotel, numero).   *)
generar_habitaciones(habs, hotel, cantidad, plazas) ==
    IF habitacion_set(habs, hotel) # {}
    THEN [habs |-> habs, res |-> "existentes",
          count |-> Cardinality(habitacion_set(habs, hotel))]
    ELSE [habs |-> generar_desde(habs, hotel, 1, cantidad, plazas),
          res |-> "generadas", count |-> cantidad]

crear_habitaciones_al_guardar_hotel_sin_created(habs, hotel, instance, created, plazas) ==
    IF instance.generar_habitaciones_auto
    THEN generar_habitaciones(habs, hotel, instance.cantidad_habitaciones, plazas)
    ELSE [habs |-> habs, res |-> "guardado", count |-> NULL]

(* The receiver of post_save(sender=Hotel). *)
crear_habitaciones_al_guardar_hotel(habs, hotel, instance, created, plazas) ==
    IF created /\ instance.generar_habitaciones_auto
    THEN generar_habitaciones(habs, hotel, instance.cantidad_habitaciones, plazas)
    ELSE [habs |-> habs, res |-> "guardado", count |-> NULL]

InitCatalogo ==
    /\ hoteles = <<>>
    /\ habitaciones = <<>>
    /\ huespedes = <<>>
    /\ reservas = <<>>
    /\ resp = Respuesta("ninguna", {}, "", {})
    /\ pc = [p \in Procs |-> "idle"]
    /\ loc = [p \in Procs |-> LocVacio]

(* Hotel.objects.create / the add form of HotelAdmin: INSERT, then         *)
(* post_save with created = True.                                          *)
CrearHotel(cantidad, auto, plazas) ==
    LET hotel == Len(hoteles) + 1
        instance == NuevoHotel(cantidad, auto)
        r == crear_habitaciones_al_guardar_hotel(habitaciones, hotel, instance, TRUE, plazas)
    IN  /\ Len(hoteles) < MaxHoteles
        /\ hoteles' = Append(hoteles, instance)
        /\ habitaciones' = r.habs
        /\ resp' = RespuestaGenerar("crear_hotel", hotel, r.res, r.count)
        /\ UNCHANGED <<huespedes, reservas, pc, loc>>

(* Saving a hotel that is already stored (the change form of HotelAdmin,   *)
(* with the checkbox generar_habitaciones_auto as posted): UPDATE, then    *)
(* post_save with created = False.                                         *)
GuardarHotel(hotel, auto, plazas) ==
    LET instance == [hoteles[hotel] EXCEPT !.generar_habitaciones_auto = auto]
        r == crear_habitaciones_al_guardar_hotel(habitaciones, hotel, instance, FALSE, plazas)
    IN  /\ hoteles' = [hoteles EXCEPT ![hotel] = instance]
        /\ habitaciones' = r.habs
        /\ resp' = RespuestaGenerar("guardar_hotel", hotel, r.res, r.count)
        /\ UNCHANGED <<huespedes, reservas, pc, loc>>

(* HotelAdmin.generar_habitaciones_action on a queryset of one hotel.      *)
GenerarHabitacionesAction(hotel, plazas) ==
    LET r == generar_habitaciones(habitaciones, hotel,
                                  hoteles[hotel].cantidad_habitaciones, plazas)
    IN  /\ IF hoteles[hotel].generar_habitaciones_auto
           THEN /\ habitaciones' = r.habs
                /\ resp' = RespuestaGenerar("generar_habitaciones_action", hotel,
                                            r.res, r.count)
           ELSE /\ UNCHANGED habitaciones
                /\ resp' = RespuestaGenerar("generar_habitaciones_action", hotel,
                                            "sin generar", NULL)
        /\ UNCHANGED <<hoteles, huespedes, reservas, pc, loc>>

NextCatalogo ==
    \/ \E cantidad \in Cantidades, auto \in BOOLEAN :
          \E plazas \in [1..cantidad -> Plazas] :
            CrearHotel(cantidad, auto, plazas)
    \/ \E hotel \in Hoteles, auto \in BOOLEAN :
          \E plazas \in [1..hoteles[hotel].cantidad_habitaciones -> Plazas] :
            GuardarHotel(hotel, auto, plazas)
    \/ \E hotel \in Hoteles :
          \E plazas \in [1..hoteles[hotel].cantidad_habitaciones -> Plazas] :
            GenerarHabitacionesAction(hotel, plazas)

SpecCatalogo == InitCatalogo /\ [][NextCatalogo]_vars

----------------------------------------------------------------------------
(* Concurrent request handlers.  A handler is a sequence of database       *)
(* queries; nothing in the code (no transaction, no lock, no unique        *)
(* constraint) keeps the queries of two requests from interleaving.  Each  *)
(* action below is one query of one handler, together with the Python code *)
(* up to the next query.                                                   *)

PersonasConc == {1}
HabitacionesConc == {1, 2}

Responder(p, r) ==
    /\ resp' = r
    /\ pc' = [pc EXCEPT ![p] = "idle"]
    /\ loc' = [loc EXCEPT ![p] = LocVacio]

Seguir(p, paso, l) ==
    /\ pc' = [pc EXCEPT ![p] = paso]
    /\ loc' = [loc EXCEPT ![p] = l]
    /\ UNCHANGED resp

(* views.completar_reserva: the guest queries and a single INSERT into    *)
(* Reserva; no other handler of these specifications reads Huesped.        *)
ConcCompletarReserva(p, form, fecha, personas, hab) ==
    /\ pc[p] = "idle"
    /\ CompletarReserva(form, fecha, personas, hab)

(* ReservaAdmin.confirmar_reserva: Reserva.objects.get.                    *)
ConcConfirmarReservaGet(p, id) ==
    /\ pc[p] = "idle"
    /\ UNCHANGED <<hoteles, habitaciones, huespedes, reservas>>
    /\ IF reservas[id].habitacion = NULL
       THEN Responder(p, Respuesta("confirmar_reserva", {id}, "AttributeError", {}))
       ELSE Seguir(p, "esta_disponible", Local("confirmar_reserva", id, reservas[id]))

(* admin.confirmar_reservas on a queryset of one row.                      *)
ConcConfirmarReservasGet(p, id) ==
    /\ pc[p] = "idle"
    /\ UNCHANGED <<hoteles, habitaciones, huespedes, reservas>>
    /\ IF reservas[id].estado # "confirmada"
       THEN Seguir(p, "save", Local("confirmar_reservas", id,
                                    [reservas[id] EXCEPT !.estado = "confirmada"]))
       ELSE Responder(p, Respuesta("confirmar_reservas", {id}, "ok", {}))

(* ReservaAdmin.cancelar_reserva: Reserva.objects.get.                     *)
ConcCancelarReservaGet(p, id) ==
    /\ pc[p] = "idle"
    /\ UNCHANGED <<hoteles, habitaciones, huespedes, reservas>>
    /\ Seguir(p, "save", Local("cancelar_reserva", id,
                               [reservas[id] EXCEPT !.estado = "cancelada"]))

(* models.crear_reserva_desde_admin: the choice of the room.               *)
ConcCrearReservaHabitacion(p, huesped_id, fecha, personas, hotel, habitacion_id) ==
    LET op == "crear_reserva_desde_admin"
        candidatas == alternativas(reservas, habitaciones, hotel, fecha, personas)
    IN  /\ pc[p] = "idle"
        /\ Len(reservas) < MaxReservas
        /\ UNCHANGED <<hoteles, habitaciones, huespedes, reservas>>
        /\ IF habitacion_id = NULL /\ candidatas = {}
           THEN Responder(p, Respuesta(op, {}, "No hay habitaciones disponibles", {}))
           ELSE Seguir(p, "esta_disponible", Local(op, NULL,
                    NuevaReserva(huesped_id, fecha, personas,
                        IF habitacion_id # NULL THEN habitacion_id
                        ELSE primera_habitacion(habitaciones, candidatas),
                        "confirmada")))

(* Habitacion.esta_disponible, as called by confirmar_reserva and by       *)
(* crear_reserva_desde_admin.                                              *)
ConcEstaDisponible(p) ==
    LET l == loc[p]
        libre == esta_disponible(reservas, l.obj.habitacion, l.obj.fecha_reserva)
    IN  /\ pc[p] = "esta_disponible"
        /\ UNCHANGED <<hoteles, habitaciones, huespedes, reservas>>
        /\ IF l.op = "confirmar_reserva"
           THEN IF libre
                THEN Seguir(p, "save", [l EXCEPT !.obj.estado = "confirmada"])
                ELSE IF alternativas(reservas, habitaciones,
                            habitaciones[l.obj.habitacion].hotel,
                            l.obj.fecha_reserva, l.obj.cantidad_personas) # {}
                     THEN Responder(p, Respuesta(l.op, {l.id},
                            "no disponible, hay alternativas", {}))
                     ELSE Responder(p, Respuesta(l.op, {l.id},
                            "no hay habitaciones disponibles", {}))
           ELSE IF libre
                THEN Seguir(p, "insert", l)
                ELSE Responder(p, Respuesta(l.op, {},
                        "La habitacion seleccionada no esta disponible", {}))

(* Reserva.save: the query for conflicting reservations.                   *)
ConcSave(p) ==
    LET l == loc[p]
    IN  /\ pc[p] = "save"
        /\ UNCHANGED <<hoteles, habitaciones, huespedes, reservas>>
        /\ IF save_conflicto(reservas, l.id, l.obj)
           THEN Responder(p, Respuesta(l.op, {l.id}, "ValueError", {}))
           ELSE Seguir(p, "update", l)

(* super().save() of a loaded row: UPDATE of every column.                 *)
ConcUpdate(p) ==
    LET l == loc[p]
    IN  /\ pc[p] = "update"
        /\ reservas' = guardar(reservas, l.id, l.obj)
        /\ UNCHANGED <<hoteles, habitaciones, huespedes>>
        /\ Responder(p, Respuesta(l.op, {l.id},
                IF l.op = "cancelar_reserva" THEN "cancelada"
                ELSE IF l.op = "confirmar_reserva" THEN "confirmada" ELSE "ok",
                {l.id}))

(* Reserva.objects.create: save() of a row without primary key, INSERT.    *)
ConcInsert(p) ==
    LET l == loc[p]
        nueva == guardar(reservas, NULL, l.obj)
    IN  /\ pc[p] = "insert"
        /\ reservas' = nueva
        /\ UNCHANGED <<hoteles, habitaciones, huespedes>>
        /\ Responder(p, Respuesta(l.op, {Len(nueva)},
                "Reserva creada exitosamente", {Len(nueva)}))

NextConfirmar ==
    \/ \E p \in Procs, form \in Formularios, fecha \in Fechas, personas \in PersonasConc,
          hab \in HabitacionesConc : ConcCompletarReserva(p, form, fecha, personas, hab)
    \/ \E p \in Procs, id \in Ids : ConcCancelarReservaGet(p, id)
    \/ \E p \in Procs, id \in Ids : ConcConfirmarReservaGet(p, id)
    \/ \E p \in Procs, id \in Ids : ConcConfirmarReservasGet(p, id)
    \/ \E p \in Procs : ConcEstaDisponible(p)
    \/ \E p \in Procs : ConcSave(p)
    \/ \E p \in Procs : ConcUpdate(p)

SpecConfirmar == Init /\ [][NextConfirmar]_vars

NextCrear ==
    \/ \E p \in Procs, form \in Formularios, fecha \in Fechas, personas \in Personas,
          hab \in DOMAIN habitaciones : ConcCompletarReserva(p, form, fecha, personas, hab)
    \/ \E p \in Procs, huesped_id \in DOMAIN huespedes, fecha \in Fechas,
          personas \in Personas, hotel \in Hoteles,
          hab \in DOMAIN habitaciones \cup {NULL} :
            ConcCrearReservaHabitacion(p, huesped_id, fecha, personas, hotel, hab)
    \/ \E p \in Procs : ConcEstaDisponible(p)
    \/ \E p \in Procs : ConcInsert(p)

SpecCrear == Init /\ [][NextCrear]_vars

----------------------------------------------------------------------------
(* Hotel.generar_habitaciones query by query.  Habitacion.objects.create   *)
(* is one INSERT, committed on its own; the table has the unique           *)
(* constraint unique_together = ['hotel', 'numero'], so the INSERT of a    *)
(* number the hotel already has raises IntegrityError, which no caller of  *)
(* generar_habitaciones catches: the request ends there.                   *)

(* The calls that interleave are calls on the same hotel.                  *)
MaxHotelesConc == 1

(* The in-memory state of a call: the hotel instance's                     *)
(* cantidad_habitaciones, the loop variable i and habitaciones_creadas.    *)
Generacion(cantidad) == [cantidad |-> cantidad, i |-> 1, creadas |-> 0]

(* Hotel.objects.create: the INSERT; post_save follows with created=True.  *)
ConcCrearHotel(p, cantidad, auto) ==
    LET hotel == Len(hoteles) + 1
    IN  /\ pc[p] = "idle"
        /\ Len(hoteles) < MaxHotelesConc
        /\ hoteles' = Append(hoteles, NuevoHotel(cantidad, auto))
        /\ UNCHANGED <<habitaciones, huespedes, reservas>>
        /\ IF auto
           THEN Seguir(p, "exists", Local("crear_hotel", hotel, Generacion(cantidad)))
           ELSE Responder(p, RespuestaGenerar("crear_hotel", hotel, "guardado", NULL))

(* The receiver crear_habitaciones_al_guardar_hotel called with            *)
(* created=True for a hotel that is already stored: the create event       *)
(* delivered once more.                                                    *)
ConcPostSaveCreated(p, hotel) ==
    /\ pc[p] = "idle"
    /\ UNCHANGED <<hoteles, habitaciones, huespedes, reservas>>
    /\ IF hoteles[hotel].generar_habitaciones_auto
       THEN Seguir(p, "exists", Local("post_save", hotel,
                Generacion(hoteles[hotel].cantidad_habitaciones)))
       ELSE Responder(p, RespuestaGenerar("post_save", hotel, "guardado", NULL))

(* HotelAdmin.generar_habitaciones_action: the hotel is loaded and its     *)
(* flag tested.                                                            *)
ConcGenerarHabitacionesAction(p, hotel) ==
    /\ pc[p] = "idle"
    /\ UNCHANGED <<hoteles, habitaciones, huespedes, reservas>>
    /\ IF hoteles[hotel].generar_habitaciones_auto
       THEN Seguir(p, "exists", Local("generar_habitaciones_action", hotel,
                Generacion(hoteles[hotel].cantidad_habitaciones)))
       ELSE Responder(p, RespuestaGenerar("generar_habitaciones_action", hotel,
                "sin generar", NULL))

(* self.habitacion_set.exists(); with no room and an empty range the call  *)
(* returns habitaciones_creadas = 0.                                       *)
ConcExists(p) ==
    LET l == loc[p]
    IN  /\ pc[p] = "exists"
        /\ UNCHANGED <<hoteles, habitaciones, huespedes, reservas>>
        /\ IF habitacion_set(habitaciones, l.id) # {}
           THEN Seguir(p, "count", l)
           ELSE IF l.obj.cantidad < 1
           THEN Responder(p, RespuestaGenerar(l.op, l.id, "generadas", l.obj.creadas))
           ELSE Seguir(p, "create", l)

(* return self.habitacion_set.count().                                     *)
ConcCount(p) ==
    LET l == loc[p]
    IN  /\ pc[p] = "count"
        /\ UNCHANGED <<hoteles, habitaciones, huespedes, reservas>>
        /\ Responder(p, RespuestaGenerar(l.op, l.id, "existentes",
                Cardinality(habitacion_set(habitaciones, l.id))))

ConcCreateSinUnique(p, plazas) ==
    LET l == loc[p]
    IN  /\ pc[p] = "create"
        /\ UNCHANGED <<hoteles, huespedes, reservas>>
        /\ habitaciones' = Append(habitaciones,
                                  NuevaHabitacion(l.id, str(l.obj.i), plazas))
        /\ IF l.obj.i = l.obj.cantidad
           THEN Responder(p, RespuestaGenerar(l.op, l.id, "generadas",
                                              l.obj.creadas + 1))
           ELSE Seguir(p, "create", [l EXCEPT !.obj.i = @ + 1,
                                              !.obj.creadas = @ + 1])

(* One iteration of the loop: Habitacion.objects.create(hotel, str(i),     *)
(* plazas), then habitaciones_creadas += 1, and the return after the last  *)
(* iteration.                                                              *)
ConcCreate(p, plazas) ==
    LET l == loc[p]
        repetida == \E h \in habitacion_set(habitaciones, l.id) :
                        habitaciones[h].numero = str(l.obj.i)
    IN  /\ pc[p] = "create"
        /\ UNCHANGED <<hoteles, huespedes, reservas>>
        /\ IF repetida
           THEN /\ UNCHANGED habitaciones
                /\ Responder(p, RespuestaGenerar(l.op, l.id, "IntegrityError",
                                                 l.obj.creadas))
           ELSE /\ habitaciones' = Append(habitaciones,
                                          NuevaHabitacion(l.id, str(l.obj.i), plazas))
                /\ IF l.obj.i = l.obj.cantidad
                   THEN Responder(p, RespuestaGenerar(l.op, l.id, "generadas",
                                                      l.obj.creadas + 1))
                   ELSE Seguir(p, "create", [l EXCEPT !.obj.i = @ + 1,
                                                      !.obj.creadas = @ + 1])

NextGenerar ==
    \/ \E p \in Procs, cantidad \in Cantidades, auto \in BOOLEAN :
            ConcCrearHotel(p, cantidad, auto)
    \/ \E hotel \in Hoteles, auto \in BOOLEAN :
          \E plazas \in [1..hoteles[hotel].cantidad_habitaciones -> Plazas] :
            GuardarHotel(hotel, auto, plazas)
    \/ \E p \in Procs, hotel \in Hoteles : ConcPostSaveCreated(p, hotel)
    \/ \E p \in Procs, hotel \in Hoteles : ConcGenerarHabitacionesAction(p, hotel)
    \/ \E p \in Procs : ConcExists(p)
    \/ \E p \in Procs : ConcCount(p)
    \/ \E p \in Procs, plazas \in Plazas : ConcCreate(p, plazas)

SpecGenerar == InitCatalogo /\ [][NextGenerar]_vars

----------------------------------------------------------------------------
(* Properties. *)

MismaHabitacionYFecha(db, i, j) ==
    /\ i # j
    /\ db[i].habitacion # NULL
    /\ db[i].habitacion = db[j].habitacion
    /\ db[i].fecha_reserva = db[j].fecha_reserva

(* C1: room-date exclusivity.  In every reachable state no two different   *)
(* reservations with the same room and the same date are both pending or   *)
(* confirmed.                                                              *)
C1_ExclusividadHabitacionFecha ==
    \A i, j \in Ids :
        MismaHabitacionYFecha(reservas, i, j)
            => ~ (reservas[i].estado \in Activos /\ reservas[j].estado \in Activos)

(* C2: whatever the interleaving of the queries of two confirm requests on *)
(* two different reservations of the same room and date, at most one of    *)
(* the two reservations is confirmed.  Under SpecConfirmar a row becomes   *)
(* confirmed only through a confirm request.                               *)
C2_UnaSolaConfirmada ==
    \A i, j \in Ids :
        MismaHabitacionYFecha(reservas, i, j)
            => ~ (reservas[i].estado = "confirmada" /\ reservas[j].estado = "confirmada")

(* Another reservation is confirmed for the room and date of reservation id. *)
OcupadaPorConfirmada(db, id) ==
    \E j \in DOMAIN db :
        MismaHabitacionYFecha(db, id, j) /\ db[j].estado = "confirmada"

Conflictos ==
    {"no disponible, hay alternativas", "no hay habitaciones disponibles", "ValueError"}

(* C3: a confirm request (the confirm view or the bulk admin action) on a  *)
(* reservation whose room and date are occupied by another confirmed       *)
(* reservation ends in a conflict, writes nothing to that reservation and  *)
(* leaves its stored status as it was.                                     *)
C3_ConfirmarOcupadaFalla ==
    [][\A id \in Ids :
        ( /\ OcupadaPorConfirmada(reservas, id)
          /\ \/ ConfirmarReserva(id)
             \/ \E ids \in SUBSET Ids : id \in ids /\ ConfirmarReservas(ids) )
        => /\ resp'.res \in Conflictos
           /\ id \notin resp'.guardadas
           /\ reservas'[id].estado = reservas[id].estado]_vars

(* C3 witness: the bulk action has just been refused by Reserva.save on a  *)
(* pending reservation whose room and date another reservation holds       *)
(* confirmed.                                                              *)
C3_Witness ==
    /\ resp.op = "confirmar_reservas"
    /\ resp.res = "ValueError"
    /\ \E id \in resp.ids :
        /\ OcupadaPorConfirmada(reservas, id)
        /\ reservas[id].estado = "pendiente"

(* No reservation other than id is pending or confirmed for its room and date. *)
SinOtraActiva(db, id) ==
    ~ \E j \in DOMAIN db :
        MismaHabitacionYFecha(db, id, j) /\ db[j].estado \in Activos

(* C4: a confirm request on a pending reservation with a room, when no     *)
(* other reservation is pending or confirmed for that room and date,       *)
(* leaves the reservation confirmed.                                       *)
C4_ConfirmarPendienteLibre ==
    [][\A id \in Ids :
        ( /\ reservas[id].estado = "pendiente"
          /\ reservas[id].habitacion # NULL
          /\ SinOtraActiva(reservas, id)
          /\ (ConfirmarReserva(id) \/ ConfirmarReservas({id})) )
        => reservas'[id].estado = "confirmada"]_vars

(* C5: crear_reserva_desde_admin stores no new confirmed reservation for a *)
(* room and date that a pending or confirmed reservation holds at the time *)
(* of the write, also when two creations run concurrently.                 *)
C5_CreacionRechazadaSiOcupada ==
    [][\A p \in Procs :
        ( /\ ConcInsert(p)
          /\ ~ esta_disponible(reservas, loc[p].obj.habitacion, loc[p].obj.fecha_reserva) )
        => Len(reservas') = Len(reservas)]_vars

(* C6: cancel on a pending or confirmed reservation leaves it cancelled;   *)
(* cancel on a reservation that is already cancelled writes no row, sends  *)
(* no message and leaves the table as it was.                              *)
C6_CancelarIdempotente ==
    [][\A id \in Ids :
        (CancelarReserva(id) \/ CancelarReservas({id}))
        => /\ reservas[id].estado \in Activos => reservas'[id].estado = "cancelada"
           /\ reservas[id].estado = "cancelada"
                => resp'.guardadas = {} /\ reservas' = reservas]_vars

(* C7: cancel on a reservation whose status is rejected or completed       *)
(* leaves the status unchanged.                                            *)
C7_CancelarSoloActivas ==
    [][\A id \in Ids :
        ( /\ reservas[id].estado \in {"rechazada", "completada"}
          /\ \/ CancelarReserva(id)
             \/ \E ids \in SUBSET Ids : id \in ids /\ CancelarReservas(ids) )
        => reservas'[id].estado = reservas[id].estado]_vars

Transiciones ==
    { <<"pendiente", "confirmada">>, <<"pendiente", "cancelada">>,
      <<"pendiente", "rechazada">>, <<"confirmada", "cancelada">> }

(* C8: a confirm or cancel request changes the status of a reservation     *)
(* only along pending->confirmed, pending->cancelled, pending->rejected or *)
(* confirmed->cancelled.                                                   *)
C8_TransicionesPermitidas ==
    [][( \/ \E id \in Ids : ConfirmarReserva(id) \/ CancelarReserva(id)
         \/ \E ids \in SUBSET Ids : ConfirmarReservas(ids) \/ CancelarReservas(ids) )
        => \A id \in Ids :
            \/ reservas'[id].estado = reservas[id].estado
            \/ <<reservas[id].estado, reservas'[id].estado>> \in Transiciones]_vars

(* C9: capacity.  Every reservation with a room has a party size that does *)
(* not exceed the seat capacity of that room.                              *)
C9_Capacidad ==
    \A id \in Ids :
        reservas[id].habitacion # NULL
            => reservas[id].cantidad_personas
                 <= habitaciones[reservas[id].habitacion].cantidad_plazas

(* C10: a reassign request (the admin view or cambiar_habitacion_reserva)  *)
(* to a room with fewer seats than the party size fails with the           *)
(* insufficient-capacity error and leaves the table as it was.             *)
C10_ReasignarSinCapacidadFalla ==
    [][\A id \in Ids, hab \in DOMAIN habitaciones :
        ( /\ habitaciones[hab].cantidad_plazas < reservas[id].cantidad_personas
          /\ (CambiarHabitacion(id, hab) \/ CambiarHabitacionReserva(id, hab)) )
        => /\ resp'.res = "La habitacion no tiene capacidad suficiente"
           /\ reservas' = reservas]_vars

(* Another pending or confirmed reservation holds room hab on the date of  *)
(* reservation id.                                                         *)
OcupadaPorOtra(db, id, hab) ==
    \E j \in DOMAIN db :
        /\ j # id
        /\ db[j].habitacion = hab
        /\ db[j].fecha_reserva = db[id].fecha_reserva
        /\ db[j].estado \in Activos

Reasignada == {"Habitacion cambiada", "Habitacion cambiada exitosamente"}

(* C11: a reassign request to a room that another pending or confirmed     *)
(* reservation holds on the reservation's date fails with the              *)
(* room-unavailable error and leaves the reservation on its room.          *)
C11_ReasignarOcupadaFalla ==
    [][\A id \in Ids, hab \in DOMAIN habitaciones :
        ( /\ OcupadaPorOtra(reservas, id, hab)
          /\ hab # reservas[id].habitacion
          /\ (CambiarHabitacion(id, hab) \/ CambiarHabitacionReserva(id, hab)) )
        => /\ resp'.res \in {"La nueva habitacion no esta disponible", "ValueError"}
           /\ reservas'[id].habitacion = reservas[id].habitacion]_vars

(* C12: after a successful reassign the reservation is on a room of the    *)
(* hotel of the room it was on before.                                     *)
C12_ReasignarMismoHotel ==
    [][\A id \in Ids, hab \in DOMAIN habitaciones :
        ( /\ (CambiarHabitacion(id, hab) \/ CambiarHabitacionReserva(id, hab))
          /\ resp'.res \in Reasignada
          /\ reservas[id].habitacion # NULL )
        => habitaciones[reservas'[id].habitacion].hotel
             = habitaciones[reservas[id].habitacion].hotel]_vars

primera_por_capacidad(habs, S) ==
    CHOOSE h \in S : \A g \in S \ {h} :
        \/ habs[h].cantidad_plazas < habs[g].cantidad_plazas
        \/ /\ habs[h].cantidad_plazas = habs[g].cantidad_plazas
           /\ numero_menor(habs[h].numero, habs[g].numero)

(* The rooms of the hotel with enough seats that no pending or confirmed   *)
(* reservation holds on the date.                                          *)
Libres(db, habs, hotel, fecha, personas) ==
    { h \in DOMAIN habs :
        /\ habs[h].hotel = hotel
        /\ habs[h].cantidad_plazas >= personas
        /\ esta_disponible(db, h, fecha) }

(* C17: a create request without a room id that succeeds puts the          *)
(* reservation on the first room, in ascending seat capacity and then      *)
(* ascending room number, among the rooms of the hotel with enough seats   *)
(* that are free on the date.                                              *)
C17_PrimeraPorCapacidad ==
    [][\A huesped_id \in DOMAIN huespedes, fecha \in Fechas, personas \in Personas,
         hotel \in Hoteles :
        ( /\ CrearReservaDesdeAdmin(huesped_id, fecha, personas, hotel, NULL)
          /\ resp'.res = "Reserva creada exitosamente" )
        => reservas'[Len(reservas')].habitacion
             = primera_por_capacidad(habitaciones,
                    Libres(reservas, habitaciones, hotel, fecha, personas))]_vars

(* C18: a create request without a room id answers "no room available"     *)
(* exactly when the hotel has no room with enough seats that is free on    *)
(* the date, and then stores nothing; otherwise it stores one reservation, *)
(* on a room that was free on the date.                                    *)
C18_SinHabitacionDisponible ==
    [][\A huesped_id \in DOMAIN huespedes, fecha \in Fechas, personas \in Personas,
         hotel \in Hoteles :
        CrearReservaDesdeAdmin(huesped_id, fecha, personas, hotel, NULL)
        => LET libres == Libres(reservas, habitaciones, hotel, fecha, personas)
           IN  IF libres = {}
               THEN /\ resp'.res = "No hay habitaciones disponibles"
                    /\ reservas' = reservas
               ELSE /\ resp'.res = "Reserva creada exitosamente"
                    /\ Len(reservas') = Len(reservas) + 1
                    /\ SubSeq(reservas', 1, Len(reservas)) = reservas
                    /\ reservas'[Len(reservas')].habitacion \in libres]_vars

(* The request was refused on hotel 1 for a party of two: a pending        *)
(* reservation holds its room of two seats, its other room is free and     *)
(* has one seat.                                                           *)
C18_Witness ==
    /\ resp.op = "crear_reserva_desde_admin"
    /\ resp.res = "No hay habitaciones disponibles"
    /\ Len(reservas) = 1
    /\ reservas[1].estado = "pendiente"
    /\ habitaciones[reservas[1].habitacion].hotel = 1
    /\ habitaciones[reservas[1].habitacion].cantidad_plazas = 2

(* C19: a create request (guest flow or crear_reserva_desde_admin) whose   *)
(* party size is zero or negative is refused and changes neither the       *)
(* guests nor the reservations.                                            *)
C19_PersonasNoPositivasRechazadas ==
    [][\A fecha \in Fechas, personas \in PersonasEntrada, hab \in DOMAIN habitaciones :
        ( /\ personas <= 0
          /\ \/ \E form \in FormulariosEntrada :
                    CompletarReserva(form, fecha, personas, hab)
             \/ \E huesped_id \in DOMAIN huespedes, hotel \in Hoteles :
                    CrearReservaDesdeAdmin(huesped_id, fecha, personas, hotel, hab) )
        => /\ resp'.res \in {"Informacion de reserva incompleta", "Error"}
           /\ reservas' = reservas
           /\ huespedes' = huespedes]_vars

(* The reservations whose estado a step turns into confirmada.             *)
PasanAConfirmada ==
    { id \in Ids : reservas[id].estado # "confirmada" /\ reservas'[id].estado = "confirmada" }

Numeros(n) == { str(k) : k \in 1..n }

(* C15: a call of generar_habitaciones on a hotel without rooms (by the    *)
(* creation of the hotel or by the admin action) leaves the hotel with     *)
(* exactly cantidad_habitaciones rooms, numbered "1" .. "N" without        *)
(* repetition, each of 1 to 4 seats, returns N, and creates no room of     *)
(* another hotel.                                                          *)
C15_GeneraExactamenteN ==
    [][\A hotel \in DOMAIN hoteles' :
        LET N == hoteles'[hotel].cantidad_habitaciones
            antes == { h \in DOMAIN habitaciones : habitaciones[h].hotel = hotel }
            despues == { h \in DOMAIN habitaciones' : habitaciones'[h].hotel = hotel }
        IN  ( /\ antes = {}
              /\ \/ \E plazas \in [1..N -> Plazas] : CrearHotel(N, TRUE, plazas)
                 \/ /\ hotel \in DOMAIN hoteles
                    /\ hoteles[hotel].generar_habitaciones_auto
                    /\ \E plazas \in [1..N -> Plazas] :
                            GenerarHabitacionesAction(hotel, plazas)
              /\ resp'.ids = {hotel} )
            => /\ Cardinality(despues) = N
               /\ { habitaciones'[h].numero : h \in despues } = Numeros(N)
               /\ \A h \in despues : habitaciones'[h].cantidad_plazas \in {1, 2, 3, 4}
               /\ resp'.count = N
               /\ \A h \in DOMAIN habitaciones : habitaciones'[h] = habitaciones[h]
               /\ DOMAIN habitaciones' = DOMAIN habitaciones \cup despues]_vars

(* The admin action generated the rooms of the second hotel, as many as    *)
(* the bound allows, after the first hotel got its rooms.                  *)
C15_Witness ==
    /\ resp.op = "generar_habitaciones_action"
    /\ resp.res = "generadas"
    /\ resp.ids = {2}
    /\ resp.count = MaxHabitaciones
    /\ habitacion_set(habitaciones, 1) # {}
    /\ Cardinality(habitacion_set(habitaciones, 2)) = MaxHabitaciones

(* C16: a hotel created with generar_habitaciones_auto off has no rooms    *)
(* after its creation, and saving a hotel that is already stored creates   *)
(* no room, whatever the flag.                                             *)
C16_SoloAlCrear ==
    [][/\ \A cantidad \in Cantidades :
            ( \E plazas \in [1..cantidad -> Plazas] : CrearHotel(cantidad, FALSE, plazas) )
            => /\ habitacion_set(habitaciones', Len(hoteles')) = {}
               /\ habitaciones' = habitaciones
       /\ \A hotel \in Hoteles, auto \in BOOLEAN :
            ( \E plazas \in [1..hoteles[hotel].cantidad_habitaciones -> Plazas] :
                GuardarHotel(hotel, auto, plazas) )
            => habitaciones' = habitaciones]_vars

(* A hotel created with the flag off was saved again with the flag on and  *)
(* still has no room.                                                      *)
C16_Witness ==
    /\ resp.op = "guardar_hotel"
    /\ \E hotel \in resp.ids :
        /\ hoteles[hotel].generar_habitaciones_auto
        /\ hoteles[hotel].cantidad_habitaciones > 0
        /\ habitacion_set(habitaciones, hotel) = {}

(* C14: whatever calls of generar_habitaciones run on a hotel and however  *)
(* their queries interleave (the creation of the hotel, the create event   *)
(* delivered again, the admin action), the hotel never has more than       *)
(* cantidad_habitaciones rooms; a call that finds a room of the hotel      *)
(* creates none and returns the number of rooms the hotel has.             *)
C14_GenerarIdempotente ==
    [][/\ \A hotel \in DOMAIN hoteles' :
            Cardinality({ h \in DOMAIN habitaciones' : habitaciones'[h].hotel = hotel })
                <= hoteles'[hotel].cantidad_habitaciones
       /\ \A p \in Procs :
            ( ConcExists(p) /\ habitacion_set(habitaciones, loc[p].id) # {} )
            => pc'[p] = "count" /\ habitaciones' = habitaciones
       /\ \A p \in Procs :
            ConcCount(p)
            => /\ habitaciones' = habitaciones
               /\ loc[p].obj.creadas = 0
               /\ resp'.res = "existentes"
               /\ resp'.count = Cardinality(habitacion_set(habitaciones, loc[p].id))]_vars

(* Two calls on the same hotel both found it without rooms; one created    *)
(* the rooms and the other was stopped by the unique constraint.           *)
C14_Witness ==
    /\ resp.res = "IntegrityError"
    /\ \E hotel \in resp.ids :
        /\ hoteles[hotel].cantidad_habitaciones = MaxHabitaciones
        /\ Cardinality(habitacion_set(habitaciones, hotel)) = MaxHabitaciones
    /\ \A p \in Procs : pc[p] = "idle"

(* C21: after every request at most one guest row exists per email, and a  *)
(* creation through the guest flow with email e leaves the row of e with   *)
(* the name and phone of the form, puts the new reservation on that row,   *)
(* keeps the row that held e before, and leaves every other guest row and  *)
(* the guest of every earlier reservation as they were.                    *)
C21_UnHuespedPorEmail ==
    [][/\ \A i, j \in DOMAIN huespedes' :
            huespedes'[i].email = huespedes'[j].email => i = j
       /\ \A form \in FormulariosEntrada, fecha \in Fechas,
             personas \in PersonasEntrada, hab \in DOMAIN habitaciones :
            ( CompletarReserva(form, fecha, personas, hab) /\ resp'.res = "creada" )
            => LET g == reservas'[Len(reservas')].huesped
               IN  /\ g \in DOMAIN huespedes'
                   /\ huespedes'[g] = form
                   /\ \A i \in DOMAIN huespedes :
                        IF huespedes[i].email = form.email
                        THEN i = g
                        ELSE huespedes'[i] = huespedes[i]
                   /\ \A i \in DOMAIN reservas :
                        reservas'[i].huesped = reservas[i].huesped]_vars

(* Two reservations were made with the same email: one guest row for that *)
(* email, both reservations on it, the row carrying the data of a form.    *)
C21_Witness ==
    /\ resp.op = "completar_reserva"
    /\ Len(reservas) = 2
    /\ reservas[1].huesped = reservas[2].huesped
    /\ Len(huespedes) = 1
    /\ huespedes[1] = Huesped("Eva", "ana@example.com", "700")

(* C22: in every state, for every hotel and date,                          *)
(* Hotel.habitaciones_disponibles is the set of the hotel's rooms for      *)
(* which Habitacion.esta_disponible is true, and a room is available on a  *)
(* date exactly when no pendiente or confirmada reservation holds it on    *)
(* that date: reservations in another estado or on another date do not     *)
(* count.                                                                  *)
C22_DisponiblesSonLasLibres ==
    /\ \A hotel \in Hoteles, fecha \in Fechas :
        habitaciones_disponibles(reservas, habitaciones, hotel, fecha)
            = { r \in DOMAIN habitaciones :
                    /\ habitaciones[r].hotel = hotel
                    /\ esta_disponible(reservas, r, fecha) }
    /\ \A r \in DOMAIN habitaciones, fecha \in Fechas :
        esta_disponible(reservas, r, fecha)
            <=> \A i \in Ids :
                    \/ reservas[i].habitacion # r
                    \/ reservas[i].fecha_reserva # fecha
                    \/ reservas[i].estado \in {"cancelada", "rechazada", "completada"}

(* On one date a room of hotel 1 is held by a completada reservation and   *)
(* is available, while its other room is held by a pendiente reservation   *)
(* and is not.                                                             *)
C22_Witness ==
    \E i, j \in Ids :
        /\ reservas[i].estado = "completada"
        /\ reservas[j].estado = "pendiente"
        /\ reservas[i].fecha_reserva = reservas[j].fecha_reserva
        /\ reservas[i].habitacion # reservas[j].habitacion
        /\ habitaciones[reservas[i].habitacion].hotel = 1
        /\ habitaciones[reservas[j].habitacion].hotel = 1
        /\ reservas[i].habitacion
             \in habitaciones_disponibles(reservas, habitaciones, 1, reservas[i].fecha_reserva)
        /\ reservas[j].habitacion
             \notin habitaciones_disponibles(reservas, habitaciones, 1, reservas[i].fecha_reserva)

(* C23: the list of free rooms of the guest flow, for a hotel, a date and  *)
(* a party size, holds exactly the rooms of the hotel with enough seats    *)
(* that no pendiente or confirmada reservation holds on the date, in       *)
(* ascending capacity and then room number, whatever the state, also when  *)
(* a pendiente or confirmada reservation of the date has lost its room.    *)
C23_ListaDeLibres ==
    [][\A hotel \in Hoteles, fecha \in Fechas, personas \in Personas :
        SeleccionarHabitacion(hotel, fecha, personas)
        => LET lista == resp'.habitaciones_disponibles
               libres == Libres(reservas, habitaciones, hotel, fecha, personas)
           IN  /\ { lista[k] : k \in DOMAIN lista } = libres
               /\ Len(lista) = Cardinality(libres)
               /\ \A k \in 1..(Len(lista) - 1) :
                    lista[k] = primera_por_capacidad(habitaciones,
                                    { lista[m] : m \in k..Len(lista) })]_vars

(* C24: for every reservation, obtener_alternativas is the set of rooms of *)
(* the hotel of its room with enough seats for its party and no pendiente  *)
(* or confirmada reservation on its date, without its own room; it is      *)
(* empty for a reservation without room.                                   *)
C24_Alternativas ==
    \A id \in Ids :
        LET reserva == reservas[id]
        IN  obtener_alternativas(reservas, habitaciones, reserva)
              = IF reserva.habitacion = NULL THEN {}
                ELSE Libres(reservas, habitaciones,
                            habitaciones[reserva.habitacion].hotel,
                            reserva.fecha_reserva, reserva.cantidad_personas)
                     \ {reserva.habitacion}

(* A cancelled reservation whose room is free again has the other room of  *)
(* the hotel as its only alternative, and a reservation without room has   *)
(* none.                                                                   *)
C24_Witness ==
    \E i, j \in Ids :
        /\ reservas[i].estado = "cancelada"
        /\ reservas[i].habitacion # NULL
        /\ esta_disponible(reservas, reservas[i].habitacion, reservas[i].fecha_reserva)
        /\ Cardinality(obtener_alternativas(reservas, habitaciones, reservas[i])) = 1
        /\ reservas[j].habitacion = NULL
        /\ reservas[j].estado \in Activos

(* C26: a confirm operation (the confirm view, the bulk action of the      *)
(* admin, confirmar_reserva_masiva) on a reservation without room that is  *)
(* not confirmada leaves its estado as it was and reports an error.        *)
C26_SinHabitacionNoSeConfirma ==
    [][\A id \in Ids :
        ( /\ reservas[id].habitacion = NULL
          /\ reservas[id].estado # "confirmada"
          /\ \/ ConfirmarReserva(id)
             \/ \E ids \in SUBSET Ids : id \in ids /\ ConfirmarReservas(ids)
             \/ ConfirmarReservaMasiva(<<id>>) )
        => /\ reservas'[id].estado = reservas[id].estado
           /\ \/ resp'.res \in {"AttributeError", "ValueError"}
              \/ /\ resp'.op = "confirmar_reserva_masiva"
                 /\ \E m \in DOMAIN resp'.fallidas : resp'.fallidas[m].id = id]_vars

(* C25: a reservation starts pendiente when the guest flow creates it and  *)
(* confirmada when the administration creates it; no creation gives it    *)
(* another estado.                                                         *)
C25_EstadoInicial ==
    [][Len(reservas') = Len(reservas) + 1
        => reservas'[Len(reservas')].estado
             = IF resp'.op = "completar_reserva" THEN "pendiente" ELSE "confirmada"]_vars

(* C27: cancelling the only pendiente or confirmada reservation of a room  *)
(* and date keeps the record, with estado cancelada, and frees the room:   *)
(* esta_disponible is true and habitaciones_disponibles of the hotel lists *)
(* the room again.  On a room freed so, a creation with that room and date *)
(* and a reassignment of a reservation of that date are accepted.          *)
C27_CancelarLibera ==
    [][/\ \A id \in Ids :
            LET reserva == reservas[id]
            IN  ( /\ reserva.estado \in Activos
                  /\ reserva.habitacion # NULL
                  /\ ~ \E j \in Ids \ {id} :
                        /\ reservas[j].habitacion = reserva.habitacion
                        /\ reservas[j].fecha_reserva = reserva.fecha_reserva
                        /\ reservas[j].estado \in Activos
                  /\ \/ CancelarReserva(id)
                     \/ \E ids \in SUBSET Ids : id \in ids /\ CancelarReservas(ids) )
                => /\ esta_disponible(reservas', reserva.habitacion, reserva.fecha_reserva)
                   /\ reserva.habitacion
                        \in habitaciones_disponibles(reservas', habitaciones,
                                habitaciones[reserva.habitacion].hotel,
                                reserva.fecha_reserva)
                   /\ Len(reservas') = Len(reservas)
                   /\ reservas'[id] = [reserva EXCEPT !.estado = "cancelada"]
       /\ \A c \in Ids :
            LET hab == reservas[c].habitacion
                fecha == reservas[c].fecha_reserva
            IN  ( /\ reservas[c].estado = "cancelada"
                  /\ hab # NULL
                  /\ \A j \in Ids : ~ ( /\ reservas[j].habitacion = hab
                                        /\ reservas[j].fecha_reserva = fecha
                                        /\ reservas[j].estado \in Activos ) )
                => /\ \A form \in Formularios, personas \in Personas :
                        CompletarReserva(form, fecha, personas, hab)
                        => /\ resp'.res = "creada"
                           /\ Len(reservas') = Len(reservas) + 1
                           /\ reservas'[Len(reservas')].habitacion = hab
                           /\ reservas'[c] = reservas[c]
                   /\ \A huesped_id \in DOMAIN huespedes, personas \in Personas,
                         hotel \in Hoteles :
                        CrearReservaDesdeAdmin(huesped_id, fecha, personas, hotel, hab)
                        => /\ resp'.res = "Reserva creada exitosamente"
                           /\ Len(reservas') = Len(reservas) + 1
                           /\ reservas'[Len(reservas')].habitacion = hab
                           /\ reservas'[c] = reservas[c]
                   /\ \A id \in Ids \ {c} :
                        ( /\ reservas[id].fecha_reserva = fecha
                          /\ habitaciones[hab].cantidad_plazas >= reservas[id].cantidad_personas
                          /\ CambiarHabitacionReserva(id, hab) )
                        => /\ resp'.res = "Habitacion cambiada exitosamente"
                           /\ reservas'[id].habitacion = hab
                           /\ reservas'[c] = reservas[c]
                   /\ \A id \in Ids \ {c} :
                        ( /\ reservas[id].fecha_reserva = fecha
                          /\ reservas[id].habitacion # NULL
                          /\ CambiarHabitacion(id, hab) )
                        => /\ resp'.res = "Habitacion cambiada"
                           /\ reservas'[id].habitacion = hab
                           /\ reservas'[c] = reservas[c]]_vars

(* A reservation of another room was moved by cambiar_habitacion_reserva   *)
(* onto the room and date of a cancelled reservation, which is still       *)
(* there.                                                                  *)
C27_Witness ==
    \E c, n \in Ids :
        /\ c # n
        /\ reservas[c].estado = "cancelada"
        /\ reservas[n].estado \in Activos
        /\ reservas[c].habitacion # NULL
        /\ reservas[n].habitacion = reservas[c].habitacion
        /\ reservas[n].fecha_reserva = reservas[c].fecha_reserva
        /\ resp.op = "cambiar_habitacion_reserva"
        /\ resp.guardadas = {n}

====
